---- MODULE Spec2Model ----
(***************************************************************************)
(* Model of validator_client/src/lib.rs: the bootstrap of the validator    *)
(* client (ProductionValidatorClient::new), the liveness retry loop        *)
(* (wait_for_node) and the start of the four services (start_service).     *)
(***************************************************************************)
EXTENDS Integers, Sequences, FiniteSets, TLC

(* ------------------------------ bounds --------------------------------- *)

\* A node answers its liveness probe after at most MaxFails failed probes,
\* or never.
MaxFails == 2

\* The retry loop of wait_for_node is unbounded; the model stops probing
\* after MaxProbes probes.
MaxProbes == 4

\* Total number of start_service calls made on the client and its clones.
MaxCalls == 2

(* --------------------------- program constants ------------------------- *)

\* const RETRY_DELAY: Duration = Duration::from_secs(2);
RETRY_DELAY == 2

(* ------------------------------ inputs --------------------------------- *)

\* Option<T>: None is the empty sequence, Some(v) the one-element sequence.
None == << >>

Some(v) == << v >>

Get(o) == o[1]

\* The failures left of a node that never answers its probe.
Never == 0 - 1

\* Eth2Config values: the identity field spec_constants and the ChainSpec
\* fields read by this file.
Eth2Configs ==
  { [spec_constants |-> "minimal",
     spec |-> [genesis_slot |-> 0, milliseconds_per_slot |-> 6000]],
    [spec_constants |-> "minimal",
     spec |-> [genesis_slot |-> 1, milliseconds_per_slot |-> 12000]],
    [spec_constants |-> "mainnet",
     spec |-> [genesis_slot |-> 0, milliseconds_per_slot |-> 12000]] }

\* client_config.server values; the second one does not parse as an address.
Servers == {"127.0.0.1", "beacon node"}

\* client_config.server_http_port values.
HttpPorts == {5052}

KeySources == {"Disk", "TestingKeypairRange"}

GenesisTimes == {1600000000, 1600000024}

\* The error strings that a ValidatorStore constructor or a service builder
\* returns and that new() hands on with `?`.
CalleeErrors == {"callee error 1", "callee error 2"}

\* Seconds after 1600000000 up to which the slot clock is read.
MaxTime == 25

\* The wall-clock times, in seconds, at which the slot clock is read.
Times == (1600000000 - 1)..(1600000000 + MaxTime)

\* Iterations of the update services that are followed.
MaxIterations == 2

\* The clones of one ProductionValidatorClient that call start_service.
Clones == {"a", "b"}

ServiceOrder == <<"duties", "fork", "block", "attestation">>

VARIABLES
  local_eth2_config,   \* context.eth2_config as passed to new()
  client_config,       \* the ClientConfig passed to new()
  node,                \* the remote beacon node: what its endpoints answer
  pc,                  \* position of the future returned by new()
  wait_fails,          \* failed probes the node had in store for wait_for_node
  probes,              \* get_version requests issued by wait_for_node
  delay_left,          \* seconds until the armed Delay fires, None when not armed
  beacon_node,         \* the RemoteBeaconNode handle made by new()
  loop_node,           \* the handle held by the loop_fn state
  waited_node,         \* the handle yielded by wait_for_node
  remote_eth2_config,  \* result of get_eth2_config
  genesis_time,        \* result of get_genesis_time
  context,             \* the RuntimeContext owned by new(): eth2_config
  compatible,          \* outcome of the spec_constants comparison
  slot_clock,          \* the SystemTimeSlotClock made by new()
  validator_store,     \* the ValidatorStore made by new()
  store_calls,         \* the ValidatorStore constructors invoked by new()
  duties_service,
  fork_service,
  block_service,
  attestation_service,
  new_result,          \* what the future of new() resolved to
  stage_log,           \* the stages of new() in the order they ran
  exit_signals,        \* Arc<RwLock<Vec<Signal>>>
  running,             \* the update services started so far
  call,                \* per clone: the start_service call in progress
  calls,               \* start_service calls made so far
  triggered,           \* the exit signals dropped with the last clone
  iterations,          \* iterations run by the update services so far
  slot_read            \* the last reading a service took from its slot clock

vars == << local_eth2_config, client_config, node, pc, wait_fails, probes,
           delay_left,
           beacon_node, loop_node, waited_node, remote_eth2_config,
           genesis_time, context, compatible, slot_clock, validator_store,
           store_calls, duties_service, fork_service, block_service, attestation_service,
           new_result, stage_log, exit_signals, running, call, calls,
           triggered, iterations, slot_read >>

\* The values built by the last closure of new().
builtVars == << slot_clock, validator_store, store_calls, duties_service,
                fork_service, block_service, attestation_service >>

\* The state of wait_for_node.
waitVars == << wait_fails, probes, delay_left, loop_node, waited_node >>

envVars == << local_eth2_config, client_config, node >>

startVars == << exit_signals, running, call, calls >>

\* The state of the started update services.
serviceVars == << triggered, iterations, slot_read >>

(* ------------------------------ helpers -------------------------------- *)

Ok(v) == [ok |-> TRUE, value |-> v]

Err(e) == [ok |-> FALSE, error |-> e]

\* format!("{}:{}", client_config.server, client_config.server_http_port)
FormatAddr(cfg) == << cfg.server, ":", cfg.server_http_port >>

\* The parse error handed on without the map_err of lib.rs 83.
ParseAddr_Unwrapped(s) ==
  IF Len(s) = 3 /\ s[1] = "127.0.0.1" /\ s[2] = ":" /\ s[3] \in 0..65535
    THEN Ok([ip |-> s[1], port |-> s[3]])
    ELSE Err(<< "AddrParseError" >>)

\* str::parse::<SocketAddr>: succeeds on "<ip>:<port>" only.
ParseAddr(s) ==
  IF Len(s) = 3 /\ s[1] = "127.0.0.1" /\ s[2] = ":" /\ s[3] \in 0..65535
    THEN Ok([ip |-> s[1], port |-> s[3]])
    ELSE Err(<< "Unable to parse server address: ", "AddrParseError" >>)

\* The liveness probe of the node: fails while the node has failures left,
\* then succeeds.
GetVersion(n) ==
  IF n.fails_left = 0 THEN Ok("Lighthouse") ELSE Err("Error")

\* The node after it has answered a probe.
AfterProbe(n) ==
  IF n.fails_left \in 1..MaxFails
    THEN [n EXCEPT !.fails_left = @ - 1]
    ELSE n

\* The check left out: every remote constant set is accepted.
SpecCompatible_Always(local, remote) == TRUE

\* The check made on the whole constant set instead of the identifier.
SpecCompatible_WholeConfig(local, remote) == local = remote

\* if context.eth2_config.spec_constants != remote_eth2_config.spec_constants
SpecCompatible(local, remote) == local.spec_constants = remote.spec_constants

\* The error printing the local identifier in both places.
IncompatibleSpecError_LocalTwice(local, remote) ==
  << "Beacon node is using an incompatible spec. Got ", local.spec_constants,
     ", expected ", local.spec_constants >>

\* format!("Beacon node is using an incompatible spec. Got {}, expected {}", ..)
IncompatibleSpecError(local, remote) ==
  << "Beacon node is using an incompatible spec. Got ", remote.spec_constants,
     ", expected ", local.spec_constants >>

\* The slot duration made with Duration::from_secs from the milliseconds.
NewSlotClock_SlotSecs(genesis_slot, genesis_secs, slot_millis) ==
  [genesis_slot |-> genesis_slot, genesis_duration |-> genesis_secs,
   slot_duration |-> slot_millis * 1000]

\* SystemTimeSlotClock::new(genesis_slot, genesis_duration, slot_duration)
NewSlotClock(genesis_slot, genesis_secs, slot_millis) ==
  [genesis_slot |-> genesis_slot, genesis_duration |-> genesis_secs,
   slot_duration |-> slot_millis]

\* The slot of a wall-clock time, in seconds, on a slot clock: none before
\* genesis, then the genesis slot plus the whole slot durations since genesis.
\* genesis_duration is in seconds, slot_duration in milliseconds.
slot_for(clock, time) ==
  IF time < clock.genesis_duration
    THEN None
    ELSE Some(clock.genesis_slot +
              ((time - clock.genesis_duration) * 1000) \div clock.slot_duration)

\* context.service_context(name)
ServiceContext(ctx, name) == [eth2_config |-> ctx.eth2_config, service |-> name]

IdleCall ==
  [pc |-> "idle", idx |-> 0, id |-> 0, pending |-> None, attempts |-> << >>,
   result |-> None]

Init ==
  /\ local_eth2_config \in Eth2Configs
  /\ client_config \in [server : Servers, server_http_port : HttpPorts,
                        key_source : KeySources]
  /\ node \in [eth2_config : Eth2Configs, genesis_time : GenesisTimes,
               fails_left : (0..MaxFails) \cup {Never}]
  /\ wait_fails = node.fails_left
  /\ pc \in {"from_cli", "parse"}
  /\ probes = 0
  /\ delay_left = None
  /\ beacon_node = None
  /\ loop_node = None
  /\ waited_node = None
  /\ remote_eth2_config = None
  /\ genesis_time = None
  /\ context = [eth2_config |-> local_eth2_config]
  /\ compatible = None
  /\ slot_clock = None
  /\ validator_store = None
  /\ store_calls = << >>
  /\ duties_service = None
  /\ fork_service = None
  /\ block_service = None
  /\ attestation_service = None
  /\ new_result = None
  /\ stage_log = << >>
  /\ exit_signals = << >>
  /\ running = {}
  /\ call = [c \in Clones |-> IdleCall]
  /\ calls = 0
  /\ triggered = {}
  /\ iterations = 0
  /\ slot_read = None

\* The future of new() resolves to an error: nothing after it runs.
Fail(e) ==
  /\ pc' = "done"
  /\ new_result' = Some(Err(e))

\* A stage of new() completes and hands over to the next one.
Goto(next) ==
  /\ pc' = next
  /\ UNCHANGED new_result

(* ------------------------- new(): first stages ------------------------- *)

\* lib.rs 51-60: new_from_cli. ClientConfig::from_cli(&cli_args) yields the
\* client_config that new() is then called with, or an error that is returned
\* with a message in front of it.
ConfigFromCli ==
  /\ pc = "from_cli"
  /\ \E ok \in BOOLEAN :
       IF ok
         THEN Goto("parse")
         ELSE \E e \in CalleeErrors :
                Fail(<< "Unable to initialize config: ", e >>)
  /\ UNCHANGED << envVars, serviceVars, startVars, waitVars, builtVars,
                  beacon_node, remote_eth2_config, genesis_time, context,
                  compatible, stage_log >>

\* lib.rs 78-84: format the address and parse it.
ParseServerAddr ==
  /\ pc = "parse"
  /\ stage_log' = Append(stage_log, "parse")
  /\ LET r == ParseAddr(FormatAddr(client_config)) IN
       IF r.ok THEN Goto("client") ELSE Fail(r.error)
  /\ UNCHANGED << envVars, serviceVars, startVars, waitVars, builtVars, beacon_node,
                  remote_eth2_config, genesis_time, context, compatible >>

\* lib.rs 85-95: RemoteBeaconNode::new(http_server_addr); on success the handle
\* is given to wait_for_node, whose loop_fn starts from a clone of it.
InitBeaconNode ==
  /\ pc = "client"
  /\ stage_log' = Append(stage_log, "client")
  /\ \E ok \in BOOLEAN :
       IF ok
         THEN /\ beacon_node' =
                   Some([addr |-> ParseAddr(FormatAddr(client_config)).value])
              /\ loop_node' = beacon_node'
              /\ Goto("probe")
         ELSE /\ Fail(<< "Unable to init beacon node http client: ", "Error" >>)
              /\ UNCHANGED << beacon_node, loop_node >>
  /\ UNCHANGED << envVars, serviceVars, startVars, builtVars, wait_fails, probes,
                  delay_left, waited_node, remote_eth2_config, genesis_time, context,
                  compatible >>

(* ---------------------------- wait_for_node ---------------------------- *)

\* A handle constructed anew instead of the one that was passed in.
YieldedNode_Fresh == Some([addr |-> [ip |-> "0.0.0.0", port |-> 0]])

\* lib.rs 283: .map(|_| beacon_node): the handle wait_for_node resolves to.
YieldedNode == beacon_node

\* The loop giving up on the first failed probe.
ProbeNode_GiveUp ==
  /\ pc = "probe"
  /\ probes < MaxProbes
  /\ probes' = probes + 1
  /\ stage_log' = Append(stage_log, "probe")
  /\ IF GetVersion(node).ok
       THEN /\ waited_node' = YieldedNode
            /\ Goto("get_eth2_config")
       ELSE /\ Fail(<< GetVersion(node).error >>)
            /\ UNCHANGED waited_node
  /\ node' = AfterProbe(node)
  /\ UNCHANGED << local_eth2_config, client_config, wait_fails, startVars,
                  serviceVars,
                  builtVars, beacon_node, loop_node,
                  delay_left, remote_eth2_config, genesis_time, context,
                  compatible >>

\* The Delay growing with the number of failed probes.
ProbeNode_Backoff ==
  /\ pc = "probe"
  /\ probes < MaxProbes
  /\ probes' = probes + 1
  /\ stage_log' = Append(stage_log, "probe")
  /\ IF GetVersion(node).ok
       THEN /\ waited_node' = YieldedNode
            /\ Goto("get_eth2_config")
            /\ UNCHANGED delay_left
       ELSE /\ delay_left' = Some(RETRY_DELAY * (probes + 1))
            /\ Goto("delay")
            /\ UNCHANGED waited_node
  /\ node' = AfterProbe(node)
  /\ UNCHANGED << local_eth2_config, client_config, wait_fails, startVars,
                  serviceVars,
                  builtVars, beacon_node, loop_node,
                  remote_eth2_config, genesis_time, context, compatible >>

\* lib.rs 245-277: one iteration of the loop: a get_version request and the
\* match on its result. Ok breaks the loop, Err arms the Delay.
ProbeNode ==
  /\ pc = "probe"
  /\ probes < MaxProbes
  /\ probes' = probes + 1
  /\ stage_log' = Append(stage_log, "probe")
  /\ IF GetVersion(node).ok
       THEN /\ waited_node' = YieldedNode
            /\ Goto("get_eth2_config")
            /\ UNCHANGED delay_left
       ELSE /\ delay_left' = Some(RETRY_DELAY)
            /\ Goto("delay")
            /\ UNCHANGED waited_node
  /\ node' = AfterProbe(node)
  /\ UNCHANGED << local_eth2_config, client_config, wait_fails, startVars,
                  serviceVars,
                  builtVars, beacon_node, loop_node,
                  remote_eth2_config, genesis_time, context, compatible >>

\* Time passes while the Delay is armed.
Tick ==
  /\ pc = "delay"
  /\ Get(delay_left) > 0
  /\ delay_left' = Some(Get(delay_left) - 1)
  /\ UNCHANGED << envVars, serviceVars, startVars, builtVars, pc, new_result, stage_log,
                  wait_fails, probes, loop_node, waited_node, beacon_node,
                  remote_eth2_config, genesis_time, context, compatible >>

\* lib.rs 273-275: the Delay resolves at its deadline and the loop continues
\* with the same handle.
DelayElapsed ==
  /\ pc = "delay"
  /\ Get(delay_left) = 0
  /\ delay_left' = None
  /\ Goto("probe")
  /\ UNCHANGED << envVars, serviceVars, startVars, builtVars, stage_log, wait_fails, probes,
                  loop_node, waited_node, beacon_node, remote_eth2_config,
                  genesis_time, context, compatible >>

\* lib.rs 274: the Delay resolves to a timer error, which ends the loop and
\* the future of new().
DelayFailed ==
  /\ pc = "delay"
  /\ delay_left' = None
  /\ Fail(<< "Failed to trigger delay: ", "timer::Error" >>)
  /\ UNCHANGED << envVars, serviceVars, startVars, builtVars, stage_log, wait_fails, probes,
                  loop_node, waited_node, beacon_node, remote_eth2_config,
                  genesis_time, context, compatible >>

(* ------------------------ new(): remote fetches ------------------------ *)

\* lib.rs 96-103: beacon_node.http.spec().get_eth2_config()
GetEth2Config ==
  /\ pc = "get_eth2_config"
  /\ stage_log' = Append(stage_log, "get_eth2_config")
  /\ \E ok \in BOOLEAN :
       IF ok
         THEN /\ remote_eth2_config' = Some(node.eth2_config)
              /\ Goto("get_genesis_time")
         ELSE /\ Fail(<< "Unable to read eth2 config from beacon node: ",
                         "Error" >>)
              /\ UNCHANGED remote_eth2_config
  /\ UNCHANGED << envVars, serviceVars, startVars, waitVars, builtVars, beacon_node,
                  genesis_time, context, compatible >>

\* The genesis-time fetch asked again after a failure.
GetGenesisTime_Retry ==
  /\ pc = "get_genesis_time"
  /\ stage_log' = Append(stage_log, "get_genesis_time")
  /\ \E ok \in BOOLEAN :
       IF ok
         THEN /\ genesis_time' = Some(node.genesis_time)
              /\ Goto("validate")
         ELSE /\ Goto("get_genesis_time")
              /\ UNCHANGED genesis_time
  /\ UNCHANGED << envVars, serviceVars, startVars, waitVars, builtVars, beacon_node,
                  remote_eth2_config, context, compatible >>

\* lib.rs 104-111: beacon_node.http.beacon().get_genesis_time()
GetGenesisTime ==
  /\ pc = "get_genesis_time"
  /\ stage_log' = Append(stage_log, "get_genesis_time")
  /\ \E ok \in BOOLEAN :
       IF ok
         THEN /\ genesis_time' = Some(node.genesis_time)
              /\ Goto("validate")
         ELSE /\ Fail(<< "Unable to read genesis time from beacon node: ",
                         "Error" >>)
              /\ UNCHANGED genesis_time
  /\ UNCHANGED << envVars, serviceVars, startVars, waitVars, builtVars, beacon_node,
                  remote_eth2_config, context, compatible >>

(* ----------------------- new(): the last closure ----------------------- *)

\* The check without the assignment of the remote Eth2Config.
ValidateSpec_KeepLocal ==
  /\ pc = "validate"
  /\ stage_log' = Append(stage_log, "validate")
  /\ IF ~ SpecCompatible(context.eth2_config, Get(remote_eth2_config))
       THEN /\ compatible' = Some(FALSE)
            /\ Fail(IncompatibleSpecError(context.eth2_config,
                                          Get(remote_eth2_config)))
       ELSE /\ compatible' = Some(TRUE)
            /\ Goto("slot_clock")
  /\ UNCHANGED << envVars, serviceVars, startVars, waitVars, builtVars, beacon_node,
                  remote_eth2_config, genesis_time, context >>

\* lib.rs 112-128: the spec_constants check; on success the remote
\* Eth2Config is assigned to context.eth2_config.
ValidateSpec ==
  /\ pc = "validate"
  /\ stage_log' = Append(stage_log, "validate")
  /\ LET remote == Get(remote_eth2_config) IN
       IF ~ SpecCompatible(context.eth2_config, remote)
         THEN /\ compatible' = Some(FALSE)
              /\ Fail(IncompatibleSpecError(context.eth2_config, remote))
              /\ UNCHANGED context
         ELSE /\ compatible' = Some(TRUE)
              /\ context' = [context EXCEPT !.eth2_config = remote]
              /\ Goto("slot_clock")
  /\ UNCHANGED << envVars, serviceVars, startVars, waitVars, builtVars, beacon_node,
                  remote_eth2_config, genesis_time >>

\* The slot clock made from the configured constants, before the check.
MakeSlotClock_Early ==
  /\ pc \in {"validate", "slot_clock"}
  /\ stage_log' = Append(stage_log, "slot_clock")
  /\ slot_clock' = Some(NewSlotClock(context.eth2_config.spec.genesis_slot,
                                     Get(genesis_time),
                                     context.eth2_config.spec.milliseconds_per_slot))
  /\ Goto("validator_store")
  /\ UNCHANGED << envVars, serviceVars, startVars, waitVars, beacon_node,
                  remote_eth2_config, genesis_time, context, compatible,
                  validator_store, store_calls, duties_service, fork_service,
                  block_service, attestation_service >>

\* lib.rs 130-134: SystemTimeSlotClock::new(..)
MakeSlotClock ==
  /\ pc = "slot_clock"
  /\ stage_log' = Append(stage_log, "slot_clock")
  /\ slot_clock' = Some(NewSlotClock(context.eth2_config.spec.genesis_slot,
                                     Get(genesis_time),
                                     context.eth2_config.spec.milliseconds_per_slot))
  /\ Goto("validator_store")
  /\ UNCHANGED << envVars, serviceVars, startVars, waitVars, beacon_node,
                  remote_eth2_config, genesis_time, context, compatible,
                  validator_store, store_calls, duties_service, fork_service,
                  block_service, attestation_service >>

\* The store loaded from disk whatever the key source.
StoreConstructor_DiskOnly(key_source) == "load_from_disk"

\* lib.rs 136-155: the match on client_config.key_source.
StoreConstructor(key_source) ==
  IF key_source = "Disk" THEN "load_from_disk"
                         ELSE "insecure_ephemeral_validators"

\* The validator store made without waiting for the time source.
MakeValidatorStore_Early ==
  /\ pc \in {"slot_clock", "validator_store"}
  /\ stage_log' = Append(stage_log, "validator_store")
  /\ store_calls' = Append(store_calls, StoreConstructor(client_config.key_source))
  /\ validator_store' =
       Some([source |-> StoreConstructor(client_config.key_source),
             spec |-> context.eth2_config.spec])
  /\ Goto("build_duties")
  /\ UNCHANGED << envVars, serviceVars, startVars, waitVars, beacon_node,
                  remote_eth2_config, genesis_time, context, compatible,
                  slot_clock, duties_service, fork_service, block_service,
                  attestation_service >>

MakeValidatorStore ==
  /\ pc = "validator_store"
  /\ stage_log' = Append(stage_log, "validator_store")
  /\ LET ctor == StoreConstructor(client_config.key_source) IN
       /\ store_calls' = Append(store_calls, ctor)
       /\ \E ok \in BOOLEAN :
            IF ok
              THEN /\ validator_store' =
                        Some([source |-> ctor, spec |-> context.eth2_config.spec])
                   /\ Goto("build_duties")
              ELSE /\ (\E e \in CalleeErrors : Fail(<< e >>))
                   /\ UNCHANGED validator_store
  /\ UNCHANGED << envVars, serviceVars, startVars, waitVars, beacon_node,
                  remote_eth2_config, genesis_time, context, compatible,
                  slot_clock, duties_service, fork_service, block_service,
                  attestation_service >>

\* lib.rs 163-168: DutiesServiceBuilder ... .build()?
BuildDutiesService ==
  /\ pc = "build_duties"
  /\ stage_log' = Append(stage_log, "build_duties")
  /\ \E ok \in BOOLEAN :
       IF ok
         THEN /\ duties_service' =
                   Some([slot_clock |-> Get(slot_clock),
                         validator_store |-> Get(validator_store),
                         beacon_node |-> Get(waited_node),
                         context |-> ServiceContext(context, "duties")])
              /\ Goto("build_fork")
         ELSE /\ (\E e \in CalleeErrors : Fail(<< e >>))
              /\ UNCHANGED duties_service
  /\ UNCHANGED << envVars, serviceVars, startVars, waitVars, beacon_node,
                  remote_eth2_config, genesis_time, context, compatible,
                  slot_clock, validator_store, store_calls, fork_service,
                  block_service, attestation_service >>

\* lib.rs 170-174: ForkServiceBuilder ... .build()?
BuildForkService ==
  /\ pc = "build_fork"
  /\ stage_log' = Append(stage_log, "build_fork")
  /\ \E ok \in BOOLEAN :
       IF ok
         THEN /\ fork_service' =
                   Some([slot_clock |-> Get(slot_clock),
                         beacon_node |-> Get(waited_node),
                         context |-> ServiceContext(context, "fork")])
              /\ Goto("build_block")
         ELSE /\ (\E e \in CalleeErrors : Fail(<< e >>))
              /\ UNCHANGED fork_service
  /\ UNCHANGED << envVars, serviceVars, startVars, waitVars, beacon_node,
                  remote_eth2_config, genesis_time, context, compatible,
                  slot_clock, validator_store, store_calls, duties_service,
                  block_service, attestation_service >>

\* The block service given a duties service of its own instead of the one
\* already built.
BuildBlockService_OwnDuties ==
  /\ pc = "build_block"
  /\ stage_log' = Append(stage_log, "build_block")
  /\ \E ok \in BOOLEAN :
       IF ok
         THEN /\ block_service' =
                   Some([duties_service |->
                           [slot_clock |-> Get(slot_clock),
                            validator_store |-> Get(validator_store),
                            beacon_node |-> Get(waited_node),
                            context |-> ServiceContext(context, "block")],
                         fork_service |-> Get(fork_service),
                         slot_clock |-> Get(slot_clock),
                         validator_store |-> Get(validator_store),
                         beacon_node |-> Get(waited_node),
                         context |-> ServiceContext(context, "block")])
              /\ Goto("build_attestation")
         ELSE /\ (\E e \in CalleeErrors : Fail(<< e >>))
              /\ UNCHANGED block_service
  /\ UNCHANGED << envVars, serviceVars, startVars, waitVars, beacon_node,
                  remote_eth2_config, genesis_time, context, compatible,
                  slot_clock, validator_store, store_calls, duties_service,
                  fork_service, attestation_service >>

\* lib.rs 176-183: BlockServiceBuilder ... .build()?
BuildBlockService ==
  /\ pc = "build_block"
  /\ stage_log' = Append(stage_log, "build_block")
  /\ \E ok \in BOOLEAN :
       IF ok
         THEN /\ block_service' =
                   Some([duties_service |-> Get(duties_service),
                         fork_service |-> Get(fork_service),
                         slot_clock |-> Get(slot_clock),
                         validator_store |-> Get(validator_store),
                         beacon_node |-> Get(waited_node),
                         context |-> ServiceContext(context, "block")])
              /\ Goto("build_attestation")
         ELSE /\ (\E e \in CalleeErrors : Fail(<< e >>))
              /\ UNCHANGED block_service
  /\ UNCHANGED << envVars, serviceVars, startVars, waitVars, beacon_node,
                  remote_eth2_config, genesis_time, context, compatible,
                  slot_clock, validator_store, store_calls, duties_service,
                  fork_service, attestation_service >>

\* lib.rs 185-192: AttestationServiceBuilder ... .build()?
BuildAttestationService ==
  /\ pc = "build_attestation"
  /\ stage_log' = Append(stage_log, "build_attestation")
  /\ \E ok \in BOOLEAN :
       IF ok
         THEN /\ attestation_service' =
                   Some([duties_service |-> Get(duties_service),
                         fork_service |-> Get(fork_service),
                         slot_clock |-> Get(slot_clock),
                         validator_store |-> Get(validator_store),
                         beacon_node |-> Get(waited_node),
                         context |-> ServiceContext(context, "attestation")])
              /\ Goto("return")
         ELSE /\ (\E e \in CalleeErrors : Fail(<< e >>))
              /\ UNCHANGED attestation_service
  /\ UNCHANGED << envVars, serviceVars, startVars, waitVars, beacon_node,
                  remote_eth2_config, genesis_time, context, compatible,
                  slot_clock, validator_store, store_calls, duties_service,
                  fork_service, block_service >>

\* new() starting the duties service before it returns the client.
ReturnClient_Started ==
  /\ pc = "return"
  /\ pc' = "done"
  /\ new_result' = Some(Ok("Self"))
  /\ LET signal == [service |-> "duties", call |-> 0,
                    spec |-> context.eth2_config.spec]
     IN /\ exit_signals' = << signal >>
        /\ running' = {signal}
  /\ wait_fails' = 0
  /\ probes' = 0
  /\ loop_node' = None
  /\ waited_node' = None
  /\ beacon_node' = None
  /\ remote_eth2_config' = None
  /\ genesis_time' = None
  /\ slot_clock' = None
  /\ validator_store' = None
  /\ store_calls' = << >>
  /\ stage_log' = << >>
  /\ UNCHANGED << envVars, serviceVars, delay_left, context, compatible,
                  duties_service, fork_service, block_service,
                  attestation_service, call, calls >>

\* lib.rs 194-201: Ok(Self {..}) with an empty exit_signals vector. The
\* context and the four services move into the client; the other values
\* held by the future were moved into the services and are gone with it.
ReturnClient ==
  /\ pc = "return"
  /\ pc' = "done"
  /\ new_result' = Some(Ok("Self"))
  /\ exit_signals' = << >>
  /\ wait_fails' = 0
  /\ probes' = 0
  /\ loop_node' = None
  /\ waited_node' = None
  /\ beacon_node' = None
  /\ remote_eth2_config' = None
  /\ genesis_time' = None
  /\ slot_clock' = None
  /\ validator_store' = None
  /\ store_calls' = << >>
  /\ stage_log' = << >>
  /\ UNCHANGED << envVars, serviceVars, delay_left, context, compatible, duties_service,
                  fork_service, block_service, attestation_service, running,
                  call, calls >>

(* ---------------------------- start_service ---------------------------- *)

\* new() returned Ok(Self): there is a client to call start_service on.
ClientReady == new_result # None /\ Get(new_result).ok

\* The service field of self that the idx-th step of start_service uses.
ServiceField(idx) ==
  CASE idx = 1 -> duties_service
    [] idx = 2 -> fork_service
    [] idx = 3 -> block_service
    [] idx = 4 -> attestation_service

\* format!("Unable to start duties service: {}", e) and the three like it.
StartError(idx, e) == << "Unable to start ", ServiceOrder[idx], " service: ", e >>

\* The argument of start_update_service: &self.context.eth2_config.spec
StartSpec == context.eth2_config.spec

\* start_service emptying the vector before it starts the services.
CallStartService_ClearSignals(c) ==
  /\ ClientReady
  /\ call[c].pc = "idle"
  /\ calls < MaxCalls
  /\ calls' = calls + 1
  /\ exit_signals' = << >>
  /\ call' = [call EXCEPT ![c] = [pc |-> "start", idx |-> 1, id |-> calls + 1,
                                  pending |-> None, attempts |-> << >>,
                                  result |-> None]]
  /\ UNCHANGED << envVars, serviceVars, waitVars, builtVars, pc, new_result,
                  stage_log, beacon_node, remote_eth2_config, genesis_time,
                  context, compatible, running >>

\* lib.rs 205: a clone of the client enters start_service.
CallStartService(c) ==
  /\ ClientReady
  /\ call[c].pc = "idle"
  /\ calls < MaxCalls
  /\ calls' = calls + 1
  /\ call' = [call EXCEPT ![c] = [pc |-> "start", idx |-> 1, id |-> calls + 1,
                                  pending |-> None, attempts |-> << >>,
                                  result |-> None]]
  /\ UNCHANGED << envVars, serviceVars, waitVars, builtVars, pc, new_result, stage_log,
                  beacon_node, remote_eth2_config, genesis_time, context,
                  compatible, exit_signals, running >>

\* start_service cancelling what it has started before it returns an error.
StartUpdateService_CancelOnError(c) ==
  /\ call[c].pc = "start"
  /\ ServiceField(call[c].idx) # None
  /\ LET idx == call[c].idx
         signal == [service |-> ServiceOrder[idx], call |-> call[c].id,
                    spec |-> StartSpec]
     IN \E ok \in BOOLEAN :
          IF ok
            THEN /\ running' = running \cup {signal}
                 /\ call' = [call EXCEPT
                      ![c].pc = "push",
                      ![c].pending = Some(signal),
                      ![c].attempts = Append(@, ServiceOrder[idx])]
            ELSE /\ call' = [call EXCEPT
                      ![c].pc = "idle",
                      ![c].attempts = Append(@, ServiceOrder[idx]),
                      ![c].result = Some(Err(StartError(idx, "Error")))]
                 /\ running' = { s \in running : s.call # call[c].id }
  /\ UNCHANGED << envVars, serviceVars, waitVars, builtVars, pc, new_result, stage_log,
                  beacon_node, remote_eth2_config, genesis_time, context,
                  compatible, exit_signals, calls >>

\* lib.rs 206-209, 213-216, 220-223, 227-230: start_update_service(spec) of
\* the next service; an error is returned at once with `?`.
StartUpdateService(c) ==
  /\ call[c].pc = "start"
  /\ ServiceField(call[c].idx) # None
  /\ LET idx == call[c].idx
         signal == [service |-> ServiceOrder[idx], call |-> call[c].id,
                    spec |-> StartSpec]
     IN \E ok \in BOOLEAN :
          IF ok
            THEN /\ running' = running \cup {signal}
                 /\ call' = [call EXCEPT
                      ![c].pc = "push",
                      ![c].pending = Some(signal),
                      ![c].attempts = Append(@, ServiceOrder[idx])]
            ELSE /\ call' = [call EXCEPT
                      ![c].pc = "idle",
                      ![c].attempts = Append(@, ServiceOrder[idx]),
                      ![c].result = Some(Err(StartError(idx, "Error")))]
                 /\ UNCHANGED running
  /\ UNCHANGED << envVars, serviceVars, waitVars, builtVars, pc, new_result, stage_log,
                  beacon_node, remote_eth2_config, genesis_time, context,
                  compatible, exit_signals, calls >>

\* The exit signal leaked with mem::forget instead of being stored.
PushExitSignal_Forget(c) ==
  /\ call[c].pc = "push"
  /\ IF call[c].idx = Len(ServiceOrder)
       THEN call' = [call EXCEPT ![c].pc = "idle", ![c].pending = None,
                                 ![c].result = Some(Ok("()"))]
       ELSE call' = [call EXCEPT ![c].pc = "start", ![c].pending = None,
                                 ![c].idx = @ + 1]
  /\ UNCHANGED << envVars, serviceVars, waitVars, builtVars, pc, new_result,
                  stage_log, beacon_node, remote_eth2_config, genesis_time,
                  context, compatible, running, calls, exit_signals >>

\* The exit signal pushed to a vector of the clone's own, which then
\* replaces the shared one.
PushExitSignal_Unshared(c) ==
  /\ call[c].pc = "push"
  /\ exit_signals' =
       Append(SelectSeq(exit_signals, LAMBDA s : s.call = call[c].id),
              Get(call[c].pending))
  /\ IF call[c].idx = Len(ServiceOrder)
       THEN call' = [call EXCEPT ![c].pc = "idle", ![c].pending = None,
                                 ![c].result = Some(Ok("()"))]
       ELSE call' = [call EXCEPT ![c].pc = "start", ![c].pending = None,
                                 ![c].idx = @ + 1]
  /\ UNCHANGED << envVars, serviceVars, waitVars, builtVars, pc, new_result,
                  stage_log, beacon_node, remote_eth2_config, genesis_time,
                  context, compatible, running, calls >>

\* The exit signal put at the front of the vector.
PushExitSignal_Front(c) ==
  /\ call[c].pc = "push"
  /\ exit_signals' = << Get(call[c].pending) >> \o exit_signals
  /\ IF call[c].idx = Len(ServiceOrder)
       THEN call' = [call EXCEPT ![c].pc = "idle", ![c].pending = None,
                                 ![c].result = Some(Ok("()"))]
       ELSE call' = [call EXCEPT ![c].pc = "start", ![c].pending = None,
                                 ![c].idx = @ + 1]
  /\ UNCHANGED << envVars, serviceVars, waitVars, builtVars, pc, new_result, stage_log,
                  beacon_node, remote_eth2_config, genesis_time, context,
                  compatible, running, calls >>

\* lib.rs 211, 218, 225, 232-234: self.exit_signals.write().push(exit); after
\* the fourth push the call returns Ok(()).
PushExitSignal(c) ==
  /\ call[c].pc = "push"
  /\ exit_signals' = Append(exit_signals, Get(call[c].pending))
  /\ IF call[c].idx = Len(ServiceOrder)
       THEN call' = [call EXCEPT ![c].pc = "idle", ![c].pending = None,
                                 ![c].result = Some(Ok("()"))]
       ELSE call' = [call EXCEPT ![c].pc = "start", ![c].pending = None,
                                 ![c].idx = @ + 1]
  /\ UNCHANGED << envVars, serviceVars, waitVars, builtVars, pc, new_result, stage_log,
                  beacon_node, remote_eth2_config, genesis_time, context,
                  compatible, running, calls >>

(* ------------------------------ shutdown ------------------------------- *)

\* The elements of the sequence q.
Range(q) == { q[i] : i \in DOMAIN q }

\* Every clone of the client has been dropped.
AllDropped == \A c \in Clones : call[c].pc = "dropped"

\* A clone of the client is dropped. start_service borrows the client, so a
\* clone is dropped only between calls. exit_signals is behind an Arc: the
\* vector and the Signals in it are dropped with the last clone, and a
\* dropped Signal triggers the exit of its service.
DropClone(c) ==
  /\ ClientReady
  /\ call[c].pc = "idle"
  /\ call' = [call EXCEPT ![c].pc = "dropped"]
  /\ triggered' = IF \A d \in Clones \ {c} : call[d].pc = "dropped"
                    THEN Range(exit_signals)
                    ELSE triggered
  /\ UNCHANGED << envVars, waitVars, builtVars, pc, new_result, stage_log,
                  beacon_node, remote_eth2_config, genesis_time, context,
                  compatible, exit_signals, running, calls, iterations,
                  slot_read >>

\* The loop of a started update service runs one more iteration; the loop
\* ends before its next iteration once its exit has been triggered.
ServiceIterate(s) ==
  /\ s \in running
  /\ s \notin triggered
  /\ iterations < MaxIterations
  /\ iterations' = iterations + 1
  /\ UNCHANGED << envVars, waitVars, builtVars, pc, new_result, stage_log,
                  beacon_node, remote_eth2_config, genesis_time, context,
                  compatible, startVars, triggered, slot_read >>

(* ------------------------------ slot clock ----------------------------- *)

\* A built service reads the slot of a wall-clock time from its slot clock.
ReadSlot ==
  /\ duties_service # None
  /\ \E time \in Times :
       slot_read' = Some([time |-> time,
                          slot |-> slot_for(Get(duties_service).slot_clock,
                                            time)])
  /\ UNCHANGED << envVars, waitVars, builtVars, startVars, pc, new_result,
                  stage_log, beacon_node, remote_eth2_config, genesis_time,
                  context, compatible, triggered, iterations >>

(* ---------------------------- specification ---------------------------- *)

Next ==
  \/ ConfigFromCli
  \/ ParseServerAddr
  \/ InitBeaconNode
  \/ ProbeNode
  \/ Tick
  \/ DelayElapsed
  \/ DelayFailed
  \/ GetEth2Config
  \/ GetGenesisTime
  \/ ValidateSpec
  \/ MakeSlotClock
  \/ MakeValidatorStore
  \/ BuildDutiesService
  \/ BuildForkService
  \/ BuildBlockService
  \/ BuildAttestationService
  \/ ReturnClient
  \/ \E c \in Clones : CallStartService(c)
  \/ \E c \in Clones : StartUpdateService(c)
  \/ \E c \in Clones : PushExitSignal(c)

Spec == Init /\ [][Next]_vars

\* A run of new() against a reachable node of the local constant set,
\* followed by start_service calls, the iterations of the started services
\* and the drop of the clones.
InitShutdown ==
  /\ Init
  /\ client_config.server = "127.0.0.1"
  /\ client_config.key_source = "Disk"
  /\ local_eth2_config.spec_constants = "mainnet"
  /\ node.eth2_config = local_eth2_config
  /\ node.genesis_time = 1600000000
  /\ node.fails_left \in {0, 1}

NextShutdown ==
  \/ ConfigFromCli
  \/ ParseServerAddr
  \/ InitBeaconNode
  \/ ProbeNode
  \/ Tick
  \/ DelayElapsed
  \/ DelayFailed
  \/ GetEth2Config
  \/ GetGenesisTime
  \/ ValidateSpec
  \/ MakeSlotClock
  \/ MakeValidatorStore
  \/ BuildDutiesService
  \/ BuildForkService
  \/ BuildBlockService
  \/ BuildAttestationService
  \/ ReturnClient
  \/ \E c \in Clones : CallStartService(c)
  \/ \E c \in Clones : StartUpdateService(c)
  \/ \E c \in Clones : PushExitSignal(c)
  \/ \E c \in Clones : DropClone(c)
  \/ \E s \in running : ServiceIterate(s)

SpecShutdown == InitShutdown /\ [][NextShutdown]_vars

\* A run of new() and the readings of the slot clock it has made.
NextNew ==
  \/ ConfigFromCli
  \/ ParseServerAddr
  \/ InitBeaconNode
  \/ ProbeNode
  \/ Tick
  \/ DelayElapsed
  \/ DelayFailed
  \/ GetEth2Config
  \/ GetGenesisTime
  \/ ValidateSpec
  \/ MakeSlotClock
  \/ MakeValidatorStore
  \/ BuildDutiesService
  \/ BuildForkService
  \/ BuildBlockService
  \/ BuildAttestationService
  \/ ReturnClient
  \/ ReadSlot

SpecNew == Init /\ [][NextNew]_vars

(* ------------------------------ properties ----------------------------- *)

\* Number of occurrences of x in the sequence q.
Count(q, x) == Cardinality({ i \in DOMAIN q : q[i] = x })

\* The future of new() resolved to an error.
NewFailed == new_result # None /\ ~ Get(new_result).ok /\ stage_log # << >>

\* The future of new_from_cli() resolved to an error before new() was called.
CliFailed == new_result # None /\ ~ Get(new_result).ok /\ stage_log = << >>

\* The exit signals pushed by the start_service call id, in registry order.
CallSignals(id) == SelectSeq(exit_signals, LAMBDA s : s.call = id)

\* The service names of a sequence of exit signals.
Services(q) == [i \in DOMAIN q |-> q[i].service]

\* The update services started by the start_service call id.
CallRunning(id) == { s.service : s \in { r \in running : r.call = id } }

\* The first k services of the start order, written out.
FirstServices(k) == SubSeq(<< "duties", "fork", "block", "attestation" >>, 1, k)

SomeServiceStarted ==
  \/ running # {}
  \/ exit_signals # << >>
  \/ calls > 0

\* C1: no service is started unless the comparison of spec_constants in new()
\* has succeeded, that is the local and the remote identifier were found
\* equal, and new() has returned a client.
C1_NoServiceBeforeCompatibility ==
  SomeServiceStarted =>
    /\ compatible = Some(TRUE)
    /\ local_eth2_config.spec_constants = node.eth2_config.spec_constants
    /\ ClientReady

\* A service runs against a node whose constants differ from the configured
\* ones in fields other than the identifier.
C1_Witness ==
  /\ running # {}
  /\ local_eth2_config # node.eth2_config

\* C2: the check passes exactly when the two spec_constants fields are equal,
\* whatever the other fields are; when they differ new() ends in an error and
\* no time source, validator store or service has been constructed.
C2_CompatibleIffIdentityEqual ==
  compatible # None =>
    /\ Get(compatible) <=>
         (local_eth2_config.spec_constants = node.eth2_config.spec_constants)
    /\ ~ Get(compatible) =>
         /\ NewFailed
         /\ slot_clock = None
         /\ validator_store = None
         /\ store_calls = << >>
         /\ duties_service = None
         /\ fork_service = None
         /\ block_service = None
         /\ attestation_service = None
         /\ stage_log[Len(stage_log)] = "validate"

\* The check has passed for two constant sets that agree on the identifier
\* only.
C2_Witness ==
  /\ compatible = Some(TRUE)
  /\ local_eth2_config.spec # node.eth2_config.spec

\* new() is over and the node serves, and has delivered, an identifier that
\* differs from the local one.
RemoteDiffers ==
  /\ pc = "done"
  /\ remote_eth2_config # None
  /\ Get(remote_eth2_config).spec_constants # local_eth2_config.spec_constants

\* The error of new() is the incompatibility error naming the remote and the
\* local identifier.
IsIncompatibleError ==
  /\ NewFailed
  /\ LET e == Get(new_result).error IN
       /\ Len(e) = 4
       /\ e[1] = "Beacon node is using an incompatible spec. Got "
       /\ e[2] = node.eth2_config.spec_constants
       /\ e[4] = local_eth2_config.spec_constants

IsGenesisTimeError ==
  /\ NewFailed
  /\ Get(new_result).error[1] = "Unable to read genesis time from beacon node: "

\* C3 as stated: a differing remote identifier always ends new() with the
\* incompatibility error, whatever the genesis-time fetch answers.
C3_Original == RemoteDiffers => IsIncompatibleError

\* C3 amended: with a differing remote identifier new() fails without any
\* retry and without a service: with the incompatibility error naming both
\* identifiers when the genesis-time fetch, which is issued before the
\* comparison, has succeeded, and with the genesis-time error otherwise.
C3_IncompatibleFailsAfterGenesisFetch ==
  RemoteDiffers =>
    /\ NewFailed
    /\ genesis_time # None => IsIncompatibleError
    /\ genesis_time = None => IsGenesisTimeError
    /\ Count(stage_log, "get_eth2_config") = 1
    /\ Count(stage_log, "get_genesis_time") = 1
    /\ Count(stage_log, "validate") <= 1
    /\ ~ SomeServiceStarted
    /\ duties_service = None

C3_Witness == RemoteDiffers /\ IsIncompatibleError

\* The position of a stage in the pipeline as the claim orders it: node
\* reachability, compatibility, genesis/time, validator store, services.
ClaimedRank(stage) ==
  CASE stage \in {"parse", "client"} -> 0
    [] stage = "probe" -> 1
    [] stage \in {"get_eth2_config", "validate"} -> 2
    [] stage \in {"get_genesis_time", "slot_clock"} -> 3
    [] stage = "validator_store" -> 4
    [] OTHER -> 5

\* The position of a stage in the pipeline as it runs.
StageRank(stage) ==
  CASE stage = "parse" -> 1
    [] stage = "client" -> 2
    [] stage = "probe" -> 3
    [] stage = "get_eth2_config" -> 4
    [] stage = "get_genesis_time" -> 5
    [] stage = "validate" -> 6
    [] stage = "slot_clock" -> 7
    [] stage = "validator_store" -> 8
    [] stage = "build_duties" -> 9
    [] stage = "build_fork" -> 10
    [] stage = "build_block" -> 11
    [] stage = "build_attestation" -> 12

\* C4 as stated: the stages run in the claimed order, the genesis-time fetch
\* after the compatibility validation.
C4_Original ==
  \A i \in 1..(Len(stage_log) - 1) :
    ClaimedRank(stage_log[i]) <= ClaimedRank(stage_log[i + 1])

\* C4 amended: the stages run strictly in the order node reachability,
\* constants fetch, genesis-time fetch, compatibility validation, time source,
\* validator store, service graph, each one only when the previous one has
\* produced its result; the genesis-time fetch precedes the validation.
C4_StagesInOrder ==
  /\ \A i \in 1..(Len(stage_log) - 1) :
       \/ StageRank(stage_log[i + 1]) = StageRank(stage_log[i]) + 1
       \/ stage_log[i] = "probe" /\ stage_log[i + 1] = "probe"
  /\ stage_log # << >> => stage_log[1] = "parse"
  /\ Count(stage_log, "get_eth2_config") > 0 => waited_node # None
  /\ Count(stage_log, "get_genesis_time") > 0 => remote_eth2_config # None
  /\ Count(stage_log, "validate") > 0 => genesis_time # None
  /\ Count(stage_log, "slot_clock") > 0 => compatible = Some(TRUE)
  /\ Count(stage_log, "validator_store") > 0 => slot_clock # None
  /\ Count(stage_log, "build_duties") > 0 => validator_store # None
  /\ Count(stage_log, "build_fork") > 0 => duties_service # None
  /\ Count(stage_log, "build_block") > 0 => fork_service # None
  /\ Count(stage_log, "build_attestation") > 0 => block_service # None

\* The whole pipeline has run, after a retried probe.
C4_Witness ==
  /\ pc = "return"
  /\ Len(stage_log) > 12

\* wait_for_node has resolved to an error.
WaitFailed ==
  /\ NewFailed
  /\ Count(stage_log, "probe") > 0
  /\ Count(stage_log, "get_eth2_config") = 0

\* wait_for_node has resolved, to a handle or to an error.
WaitTerminated == waited_node # None \/ WaitFailed

C7_StartsFourInOrder ==
  \A c \in Clones :
    LET k == call[c].idx
        id == call[c].id
    IN /\ call[c].pc = "start" =>
            /\ Services(CallSignals(id)) = FirstServices(k - 1)
            /\ CallRunning(id) = { FirstServices(k - 1)[i] : i \in 1..(k - 1) }
            /\ call[c].attempts = FirstServices(k - 1)
       /\ call[c].pc = "push" =>
            /\ Services(CallSignals(id)) = FirstServices(k - 1)
            /\ CallRunning(id) = { FirstServices(k)[i] : i \in 1..k }
            /\ Get(call[c].pending).service = FirstServices(k)[k]
       /\ (call[c].result # None /\ Get(call[c].result).ok) =>
            /\ call[c].pc = "idle"
            /\ call[c].attempts = << "duties", "fork", "block", "attestation" >>
            /\ Services(CallSignals(id)) =
                 << "duties", "fork", "block", "attestation" >>
            /\ CallRunning(id) = {"duties", "fork", "block", "attestation"}

\* Two calls have returned Ok.
C7_Witness ==
  /\ \A c \in Clones : call[c].result # None /\ Get(call[c].result).ok
  /\ Len(exit_signals) = 8

\* C8: when the start of the k-th service fails, start_service returns an
\* error naming that service, has attempted no later service, has pushed no
\* signal for the failed one, and the k-1 services started before it are
\* still running with their signals in the registry.
C8_FailedStartReturnsAtOnce ==
  \A c \in Clones :
    (call[c].result # None /\ ~ Get(call[c].result).ok) =>
      LET k == call[c].idx
          id == call[c].id
          e == Get(call[c].result).error
      IN /\ call[c].pc = "idle"
         /\ k \in 1..4
         /\ e[1] = "Unable to start "
         /\ e[2] = << "duties", "fork", "block", "attestation" >>[k]
         /\ e[3] = " service: "
         /\ call[c].attempts = FirstServices(k)
         /\ Services(CallSignals(id)) = FirstServices(k - 1)
         /\ CallRunning(id) = { FirstServices(k - 1)[i] : i \in 1..(k - 1) }
         /\ call[c].pending = None

\* The start of the block service has failed after duties and fork started.
C8_Witness ==
  \E c \in Clones :
    /\ call[c].result # None
    /\ ~ Get(call[c].result).ok
    /\ call[c].idx = 3
    /\ CallRunning(call[c].id) = {"duties", "fork"}

\* C9: once the check has passed, context.eth2_config is the remote constant
\* set, and the slot clock, the validator store, the service contexts and
\* every start_update_service call use the remote constants, not the
\* configured ones.
C9_RemoteConstantsAdopted ==
  /\ compatible = Some(TRUE) => context.eth2_config = node.eth2_config
  /\ slot_clock # None =>
       /\ Get(slot_clock).genesis_slot = node.eth2_config.spec.genesis_slot
       /\ Get(slot_clock).slot_duration =
            node.eth2_config.spec.milliseconds_per_slot
  /\ validator_store # None =>
       Get(validator_store).spec = node.eth2_config.spec
  /\ \A svc \in {duties_service, fork_service, block_service,
                 attestation_service} :
       svc # None => Get(svc).context.eth2_config = node.eth2_config
  /\ \A s \in running : s.spec = node.eth2_config.spec

\* All four services run on remote constants that differ from the
\* configured ones.
C9_Witness ==
  /\ local_eth2_config.spec # node.eth2_config.spec
  /\ \E id \in 1..calls :
       CallRunning(id) = {"duties", "fork", "block", "attestation"}

\* C10: the time source is constructed at most once, only after the check
\* has passed, from the genesis time and the constants of the remote node;
\* there is none while the check has failed or has not run.
C10_SlotClockOnceAfterValidation ==
  /\ Count(stage_log, "slot_clock") <= 1
  /\ slot_clock # None =>
       /\ compatible = Some(TRUE)
       /\ Count(stage_log, "slot_clock") = 1
       /\ \E i, j \in DOMAIN stage_log :
            /\ i < j
            /\ stage_log[i] = "validate"
            /\ stage_log[j] = "slot_clock"
       /\ Get(slot_clock) =
            [genesis_slot |-> node.eth2_config.spec.genesis_slot,
             genesis_duration |-> node.genesis_time,
             slot_duration |-> node.eth2_config.spec.milliseconds_per_slot]
  /\ compatible # Some(TRUE) => slot_clock = None

\* The time source exists, made from remote constants that differ from the
\* configured ones.
C10_Witness ==
  /\ slot_clock # None
  /\ local_eth2_config.spec # node.eth2_config.spec
  /\ pc = "validator_store"

\* The stages of new() other than the liveness probe.
OnceStages ==
  {"parse", "client", "get_eth2_config", "get_genesis_time", "validate",
   "slot_clock", "validator_store", "build_duties", "build_fork",
   "build_block", "build_attestation"}

\* The stages of new() that can fail, the comparison and the probe aside.
FallibleStages ==
  {"parse", "client", "get_eth2_config", "get_genesis_time",
   "validator_store", "build_duties", "build_fork", "build_block",
   "build_attestation"}

\* What a stage of new() leaves behind when it succeeds.
StageResult(stage) ==
  CASE stage \in {"parse", "client"} -> beacon_node
    [] stage = "probe" -> waited_node
    [] stage = "get_eth2_config" -> remote_eth2_config
    [] stage = "get_genesis_time" -> genesis_time
    [] stage = "validate" -> compatible
    [] stage = "slot_clock" -> slot_clock
    [] stage = "validator_store" -> validator_store
    [] stage = "build_duties" -> duties_service
    [] stage = "build_fork" -> fork_service
    [] stage = "build_block" -> block_service
    [] stage = "build_attestation" -> attestation_service

\* C11: every stage of new() but the liveness probe is attempted at most
\* once; when the address parse, the client creation, the constants fetch,
\* the genesis-time fetch, the validator store construction or a service build
\* fails, new() is over with an error, the failed stage has left no result
\* and no later stage has run.
C11_OnlyProbeRetried ==
  /\ \A st \in OnceStages : Count(stage_log, st) <= 1
  /\ (NewFailed /\ ~ WaitFailed /\ compatible # Some(FALSE)) =>
       /\ pc = "done"
       /\ stage_log # << >>
       /\ LET failed == stage_log[Len(stage_log)] IN
            /\ failed \in FallibleStages
            /\ StageResult(failed) = None
            /\ \A st \in OnceStages :
                 StageRank(st) > StageRank(failed) =>
                   /\ Count(stage_log, st) = 0
                   /\ st # "validate" => StageResult(st) = None

\* The build of the fork service has failed after the duties service was
\* built.
C11_Witness ==
  /\ NewFailed
  /\ stage_log # << >>
  /\ stage_log[Len(stage_log)] = "build_fork"
  /\ duties_service # None

\* The stage at which new() failed.
FailedStage == stage_log[Len(stage_log)]

\* The message that this file puts in front of the error of a stage.
StageMessage(stage) ==
  CASE stage = "parse" -> "Unable to parse server address: "
    [] stage = "client" -> "Unable to init beacon node http client: "
    [] stage = "probe" -> "Failed to trigger delay: "
    [] stage = "get_eth2_config" ->
         "Unable to read eth2 config from beacon node: "
    [] stage = "get_genesis_time" ->
         "Unable to read genesis time from beacon node: "
    [] stage = "validate" -> "Beacon node is using an incompatible spec. Got "
    [] OTHER -> ""

\* The stages whose error new() returns with a bare `?`.
UnwrappedStages ==
  {"validator_store", "build_duties", "build_fork", "build_block",
   "build_attestation"}

\* The errors of start_service name the service that failed to start.
StartErrorsNameService ==
  \A c \in Clones :
    (call[c].result # None /\ ~ Get(call[c].result).ok) =>
      LET e == Get(call[c].result).error IN
        /\ Len(e) = 4
        /\ e[1] = "Unable to start "
        /\ e[2] = << "duties", "fork", "block", "attestation" >>[call[c].idx]
        /\ e[3] = " service: "

\* C12 as stated: every error of new() and of start_service begins with a
\* message of this file that identifies the failed stage, the store
\* construction and the four builds included.
C12_Original ==
  /\ StartErrorsNameService
  /\ NewFailed =>
       LET e == Get(new_result).error IN
         /\ Len(e) >= 2
         /\ StageMessage(FailedStage) # ""
         /\ e[1] = StageMessage(FailedStage)

\* C12 amended: the errors of the address parse, the client creation, the two
\* fetches, the comparison, the retry timer and the four service starts begin
\* with a message of this file that identifies the stage; the error of the
\* validator store construction and of each service build is the callee's
\* error, returned as it is with nothing added.
C12_StageMessageUnlessBareQuestionMark ==
  /\ StartErrorsNameService
  /\ NewFailed =>
       LET e == Get(new_result).error IN
         IF FailedStage \in UnwrappedStages
           THEN Len(e) = 1 /\ e[1] \in CalleeErrors
           ELSE Len(e) >= 2 /\ e[1] = StageMessage(FailedStage)

\* The validator store construction has failed and new() has returned the
\* callee's error.
C12_Witness ==
  /\ NewFailed
  /\ FailedStage = "validator_store"
  /\ Get(new_result).error = << "callee error 2" >>

\* No start_service call is between a successful start and the push of the
\* Signal it returned.
NoPendingSignal == \A c \in Clones : call[c].pc # "push"

\* The Signals that a start_service call holds between start and push.
PendingSignals ==
  { Get(call[c].pending) : c \in { d \in Clones : call[d].pc = "push" } }

\* A start_service call has failed after it had started a service.
FailedPartway ==
  \E c \in Clones :
    /\ call[c].result # None
    /\ ~ Get(call[c].result).ok
    /\ CallRunning(call[c].id) # {}

C13_Step ==
  /\ running' \subseteq Range(exit_signals') \cup PendingSignals'
  /\ NoPendingSignal' => running' \subseteq Range(exit_signals')
  /\ AllDropped' => running' \subseteq triggered'
  /\ triggered # {} => iterations' = iterations

\* C13: every running service has its exit Signal in exit_signals as soon as
\* the start_service statement that started it has completed, the services
\* left by a call that failed partway included; dropping the client with all
\* its clones triggers the Signal of every running service, and once the
\* Signals are triggered no service runs a further iteration.
C13_RunningServicesAreCancellable == [][C13_Step]_vars

\* Both clones are dropped after a start_service call that failed partway;
\* the services it left running have iterated and are now triggered.
C13_Witness ==
  /\ AllDropped
  /\ FailedPartway
  /\ iterations > 0
  /\ running # {}
  /\ running \subseteq triggered

\* C14: new() and new_from_cli() start no service. While either is running
\* and when it has returned, with a client or with an error, exit_signals is
\* empty and no update service is running; this stays so until the first
\* start_service call on the client.
C14_NewStartsNothing ==
  calls = 0 =>
    /\ exit_signals = << >>
    /\ running = {}
    /\ \A c \in Clones : call[c] = IdleCall

\* new() has returned the client and start_service has not been called.
C14_Witness ==
  /\ ClientReady
  /\ calls = 0
  /\ exit_signals = << >>
  /\ running = {}
  /\ duties_service # None
  /\ attestation_service # None

\* The three values made once in new() and handed to the builders.
SharedInputs == {"slot_clock", "validator_store", "beacon_node"}

\* The service has the given dependencies and a runtime context, and each
\* shared input it has is the one the duties service has.
Wired(service, deps) ==
  service # None =>
    /\ DOMAIN Get(service) = deps \cup {"context"}
    /\ duties_service # None
    /\ \A d \in deps \cap SharedInputs :
         Get(service)[d] = Get(duties_service)[d]

\* The service is built from the already-built duties and fork services.
UsesBuilt(service) ==
  service # None =>
    /\ duties_service # None
    /\ fork_service # None
    /\ Get(service).duties_service = Get(duties_service)
    /\ Get(service).fork_service = Get(fork_service)

\* The shared inputs of the duties service are the values new() holds.
DutiesInputs ==
  (duties_service # None /\ pc # "done") =>
    /\ Get(duties_service).slot_clock = Get(slot_clock)
    /\ Get(duties_service).validator_store = Get(validator_store)
    /\ Get(duties_service).beacon_node = Get(waited_node)

\* new() makes one time source, one validator store and one node handle.
OneOfEach ==
  /\ Count(stage_log, "slot_clock") <= 1
  /\ Len(store_calls) <= 1
  /\ Count(stage_log, "client") <= 1

\* C15 as stated: each of the four services, the fork service included, is
\* given the one time source, the one validator store and the one node handle.
C15_Original ==
  \A service \in {duties_service, fork_service, block_service,
                  attestation_service} :
    service # None => SharedInputs \subseteq DOMAIN Get(service)

\* C15 amended: the block and attestation services are built after the duties
\* and fork services and are given those two built services; each builder is
\* given exactly the dependencies of its row of the table; the duties, block
\* and attestation services share the one validator store, and all four share
\* the one time source and the one node handle; the fork service is given no
\* validator store.
C15_BuildersWiredPerTable ==
  /\ Wired(duties_service, SharedInputs)
  /\ Wired(fork_service, {"slot_clock", "beacon_node"})
  /\ Wired(block_service, SharedInputs \cup {"duties_service", "fork_service"})
  /\ Wired(attestation_service,
           SharedInputs \cup {"duties_service", "fork_service"})
  /\ UsesBuilt(block_service)
  /\ UsesBuilt(attestation_service)
  /\ fork_service # None => duties_service # None
  /\ attestation_service # None => block_service # None
  /\ DutiesInputs
  /\ OneOfEach

\* The four services are built; the fork service has no validator store.
C15_Witness ==
  /\ pc = "return"
  /\ attestation_service # None
  /\ "validator_store" \notin DOMAIN Get(fork_service)
  /\ Get(attestation_service).duties_service = Get(duties_service)

\* slot_for does not decrease from time t1 to the later time t2.
NotDecreasing(clock, t1, t2) ==
  LET s1 == slot_for(clock, t1)
      s2 == slot_for(clock, t2)
  IN s1 # None => s2 # None /\ Get(s1) <= Get(s2)

\* The slot clock of the scenario: G = 1600000000, S = 0, D = 12 s.
ScenarioClock ==
  [genesis_slot |-> 0, genesis_duration |-> 1600000000, slot_duration |-> 12000]

\* C16: the slot clock that new() builds from the fetched genesis time G and
\* the adopted genesis slot S and slot duration D maps time to slots without
\* ever decreasing and maps G to S; built from G = 1600000000, S = 0 and
\* D = 12 s it maps 1600000000 to slot 0 and 1600000024 to slot 2; every
\* reading a service takes is the value of that function.
C16_SlotForMonotonicFromGenesis ==
  duties_service # None =>
    LET clock == Get(duties_service).slot_clock IN
      /\ \A t1, t2 \in Times : t1 <= t2 => NotDecreasing(clock, t1, t2)
      /\ slot_for(clock, node.genesis_time) =
           Some(node.eth2_config.spec.genesis_slot)
      /\ (node.genesis_time = 1600000000
          /\ node.eth2_config.spec.genesis_slot = 0
          /\ node.eth2_config.spec.milliseconds_per_slot = 12000) =>
           /\ clock = ScenarioClock
           /\ slot_for(clock, 1600000000) = Some(0)
           /\ slot_for(clock, 1600000024) = Some(2)
      /\ slot_read # None =>
           Get(slot_read).slot = slot_for(clock, Get(slot_read).time)

\* A service has read slot 2 at 1600000024 from the clock of the scenario.
C16_Witness ==
  /\ duties_service # None
  /\ Get(duties_service).slot_clock = ScenarioClock
  /\ slot_read = Some([time |-> 1600000024, slot |-> Some(2)])

\* wait_for_node is running: a probe is due or a Delay is armed.
Waiting == pc \in {"probe", "delay"}

C17_Step ==
  /\ Waiting => probes' \in {probes, probes + 1}
  /\ probes' = probes + 1 =>
       /\ pc = "probe"
       /\ delay_left = None
       /\ loop_node = beacon_node
       /\ pc' = IF GetVersion(node).ok THEN "get_eth2_config" ELSE "delay"
  /\ (delay_left = None /\ delay_left' # None) =>
       /\ probes' = probes + 1
       /\ ~ GetVersion(node).ok
       /\ delay_left' = Some(RETRY_DELAY)
  /\ (delay_left # None /\ delay_left' # None) =>
       /\ probes' = probes
       /\ Get(delay_left') \in {Get(delay_left), Get(delay_left) - 1}
  /\ (pc = "delay" /\ pc' # "delay") =>
       /\ delay_left' = None
       /\ pc' \in {"probe", "done"}
       /\ pc' = "probe" => delay_left = Some(0)
       /\ pc' = "done" => NewFailed'
  /\ Waiting => loop_node' = loop_node
  /\ pc = "delay" <=> delay_left # None

\* C17: in wait_for_node a probe is issued only when no Delay is armed, one
\* per iteration; a failed probe arms one Delay of RETRY_DELAY = 2 seconds,
\* whatever the number of failures so far; the next probe is issued only when
\* that Delay has run down to its deadline, with the handle the loop started
\* from; only the failure of the Delay ends the loop without a probe.
C17_ProbesAndDelaysAlternate == [][C17_Step]_vars

\* The second probe has failed too and has armed the same Delay again.
C17_Witness ==
  /\ pc = "delay"
  /\ probes = 2
  /\ delay_left = Some(RETRY_DELAY)
  /\ loop_node = beacon_node
  /\ RETRY_DELAY = 2

\* The service builders that new() has invoked.
BuildersInvoked ==
  { st \in {"build_duties", "build_fork", "build_block", "build_attestation"} :
      Count(stage_log, st) > 0 }

\* C18: a run of new() that reaches the validator store stage invokes exactly
\* one store constructor, once: load_from_disk when the key source is Disk,
\* insecure_ephemeral_validators when it is a testing keypair range; when the
\* constructor fails, new() returns its error and invokes no service builder.
C18_OneStoreConstructorByKeySource ==
  /\ Count(stage_log, "validator_store") = 0 => store_calls = << >>
  /\ Count(stage_log, "validator_store") > 0 =>
       /\ Count(stage_log, "validator_store") = 1
       /\ client_config.key_source = "Disk" =>
            store_calls = << "load_from_disk" >>
       /\ client_config.key_source = "TestingKeypairRange" =>
            store_calls = << "insecure_ephemeral_validators" >>
       /\ validator_store # None =>
            Get(validator_store).source = store_calls[1]
  /\ (NewFailed /\ FailedStage = "validator_store") =>
       /\ Get(new_result).error \in { << e >> : e \in CalleeErrors }
       /\ validator_store = None
       /\ BuildersInvoked = {}
       /\ duties_service = None /\ fork_service = None
       /\ block_service = None /\ attestation_service = None
  /\ BuildersInvoked # {} => validator_store # None \/ pc = "done"

\* The generation of the ephemeral keypairs has failed and new() is over.
C18_Witness ==
  /\ NewFailed
  /\ FailedStage = "validator_store"
  /\ store_calls = << "insecure_ephemeral_validators" >>
  /\ pc = "done"

\* The sequence p is the beginning of the sequence q.
IsPrefix(p, q) == Len(p) <= Len(q) /\ SubSeq(q, 1, Len(p)) = p

\* The start_service call with this id has started all four services.
StartedAll(id) == Cardinality(CallRunning(id)) = Len(ServiceOrder)

C19_Step ==
  /\ IsPrefix(exit_signals, exit_signals')
  /\ Len(exit_signals') <= Len(exit_signals) + 1
  /\ Len(exit_signals') + Cardinality(PendingSignals') = Cardinality(running')
  /\ (NoPendingSignal' /\ StartedAll(1)' /\ StartedAll(2)' /\ calls' = 2) =>
       Len(exit_signals') = 8

\* C19: start_service only appends to exit_signals: no step removes or
\* replaces a Signal; once every started service's Signal is pushed, the
\* length of the vector is the number of successful starts of all calls; two
\* calls that each start the four services leave eight Signals.
C19_RegistryAppendOnly == [][C19_Step]_vars

\* Two start_service calls have succeeded on the client: eight Signals.
C19_Witness ==
  /\ calls = 2
  /\ NoPendingSignal
  /\ StartedAll(1)
  /\ StartedAll(2)
  /\ Len(exit_signals) = 8

\* The Signals of two calls alternate somewhere in the vector.
Interleaved ==
  \E i, j, k \in DOMAIN exit_signals :
    /\ i < j /\ j < k
    /\ exit_signals[i].call = exit_signals[k].call
    /\ exit_signals[i].call # exit_signals[j].call

\* C20: the clones push to one shared vector, one push at a time: however
\* the start_service calls of two clones interleave, the Signal of every
\* successful start is in the vector exactly once as soon as it is pushed,
\* and is held by its call until then; the vector holds nothing else.
C20_EveryHandleExactlyOnce ==
  /\ \A s \in running :
       IF s \in PendingSignals
         THEN Count(exit_signals, s) = 0
         ELSE Count(exit_signals, s) = 1
  /\ Range(exit_signals) \subseteq running
  /\ \A id \in 1..calls :
       Services(CallSignals(id)) =
         FirstServices(Len(CallSignals(id)))

\* Two clones have run start_service at the same time and both have
\* succeeded; their Signals are interleaved in the vector.
C20_Witness ==
  /\ \A c \in Clones : call[c].result = Some(Ok("()"))
  /\ call["a"].id # call["b"].id
  /\ Interleaved
  /\ Len(exit_signals) = 8

====
